---- MODULE Spec2Model ----
(***************************************************************************)
(* Pragmatic.js: the reactive store, the conditional-expression evaluator, *)
(* the show-if binding and the router, in the two builds of the library    *)
(* (pragmatic-standalone.js and the UMD build).                            *)
(*                                                                         *)
(* JavaScript strings are sequences of one-character strings.  JavaScript  *)
(* values are records with a type tag.  The model takes the library's      *)
(* functions to be defined when the store is constructed.                  *)
(***************************************************************************)
EXTENDS Integers, Sequences, FiniteSets, TLC

VARIABLES
    build,        \* "standalone" or "umd": which file of the library is loaded
    pc,           \* "unloaded", "constructed", "ready" (the application has
                  \* rendered), "crashed" (the constructor threw),
                  \* "hashchange" (a hashchange event is waiting) or "left"
                  \* (the browser went to another document); "evaluate" and
                  \* "reactive" in the runs of the evaluator and of reactive
    storage,      \* localStorage item "state": NoItem, a JSON text or a garbage text
    quota,        \* TRUE once localStorage.setItem throws (quota used up)
    data,         \* StateSingleton.data: the proxied target object
    subscribers,  \* StateSingleton.subscribers: key -> sequence of callbacks
    mounted,      \* TRUE once the application's elements are in the document
    display,      \* element -> TRUE when style.display is "", FALSE when "none"
    inputValue,   \* bound input element -> its value property
    raf,          \* the animation-frame callbacks waiting for the next frame
    location,     \* window.location.pathname + window.location.hash
    history,      \* the session history: sequence of [url, path] entries
    hindex,       \* index of the current history entry
    last,         \* what the last operation did (observation for the properties)
    cond,         \* evaluator run: the condition text given to evaluateCondition
    res,          \* evaluator run: the result of the last evaluation
    classList,    \* form field -> its classes among "valid" and "invalid"
    singleton,    \* StateSingleton.instance and what the constructor calls did
    click         \* the last click on an anchor and what its listeners did

vars == <<build, pc, storage, quota, data, subscribers, mounted, display,
          inputValue, raf, location, history, hindex, last, cond, res, classList,
          singleton, click>>

-----------------------------------------------------------------------------
(* Strings *)

Lower == {"a","b","c","d","e","f","g","h","i","j","k","l","m",
          "n","o","p","q","r","s","t","u","v","w","x","y","z"}
Upper == {"A","B","C","D","E","F","G","H","I","J","K","L","M",
          "N","O","P","Q","R","S","T","U","V","W","X","Y","Z"}
Digits == <<"0","1","2","3","4","5","6","7","8","9">>
IsDigit(c) == \E d \in 1..10 : Digits[d] = c
DigitVal(c) == (CHOOSE d \in 1..10 : Digits[d] = c) - 1

\* [a-zA-Z0-9_]
KeyChar(c) == c \in Lower \/ c \in Upper \/ IsDigit(c) \/ c = "_"

\* \s
IsSpace(c) == c = " "

StartsWith(s, p) == Len(p) <= Len(s) /\ SubSeq(s, 1, Len(p)) = p

Includes(s, p) ==
    \E i \in 1..(Len(s) - Len(p) + 1) : SubSeq(s, i, i + Len(p) - 1) = p

\* String.prototype.trim
Trim(s) ==
    IF \A i \in 1..Len(s) : IsSpace(s[i]) THEN << >>
    ELSE LET i == CHOOSE a \in 1..Len(s) :
                      ~IsSpace(s[a]) /\ \A b \in 1..(a-1) : IsSpace(s[b])
             j == CHOOSE a \in 1..Len(s) :
                      ~IsSpace(s[a]) /\ \A b \in (a+1)..Len(s) : IsSpace(s[b])
         IN SubSeq(s, i, j)

\* s.replace(p, ""): the first occurrence of p is removed
RemoveFirst(s, p) ==
    IF ~Includes(s, p) THEN s
    ELSE LET i == CHOOSE a \in 1..(Len(s) - Len(p) + 1) :
                      /\ SubSeq(s, a, a + Len(p) - 1) = p
                      /\ \A b \in 1..(a-1) : SubSeq(s, b, b + Len(p) - 1) # p
         IN SubSeq(s, 1, i - 1) \o SubSeq(s, i + Len(p), Len(s))

\* the number of whitespace characters from position p on
SpacesFrom(s, p) ==
    CHOOSE n \in 0..(Len(s) + 1) :
        /\ p + n - 1 <= Len(s) \/ n = 0
        /\ \A j \in p..(p + n - 1) : IsSpace(s[j])
        /\ (p + n > Len(s) \/ ~IsSpace(s[p + n]))

\* the number of whitespace characters up to position p (backwards)
SpacesBefore(s, p) ==
    CHOOSE n \in 0..Len(s) :
        /\ n <= p
        /\ \A j \in (p - n + 1)..p : IsSpace(s[j])
        /\ (p - n < 1 \/ ~IsSpace(s[p - n]))

\* s.split(/\s*SEP\s*/) for a two-character separator (|| or &&)
RECURSIVE SplitOn(_, _)
SplitOn(s, sep) ==
    IF ~Includes(s, sep) THEN << s >>
    ELSE LET at == CHOOSE a \in 1..(Len(s) - 1) :
                       /\ SubSeq(s, a, a + 1) = sep
                       /\ \A b \in 1..(a-1) : SubSeq(s, b, b + 1) # sep
             from == at - SpacesBefore(s, at - 1)
             to == at + 2 + SpacesFrom(s, at + 2)
         IN << SubSeq(s, 1, from - 1) >> \o SplitOn(SubSeq(s, to, Len(s)), sep)

-----------------------------------------------------------------------------
(* JavaScript values *)

Val(t, b, n, s) == [t |-> t, b |-> b, n |-> n, s |-> s]
Undefined == Val("undefined", FALSE, 0, << >>)
Null == Val("null", FALSE, 0, << >>)
Bool(b) == Val("boolean", b, 0, << >>)
Num(n) == Val("number", FALSE, n, << >>)
Str(s) == Val("string", FALSE, 0, s)
\* a function object; n tells one function from another
Fn(n) == Val("function", FALSE, n, << >>)
\* the number NaN as a value of an object: the one value not === to itself
NaNValue == Val("NaN", FALSE, 0, << >>)

\* ToBoolean
Truthy(v) ==
    CASE v.t = "undefined" -> FALSE
      [] v.t = "null" -> FALSE
      [] v.t = "boolean" -> v.b
      [] v.t = "number" -> v.n # 0
      [] v.t = "string" -> v.s # << >>
      [] OTHER -> TRUE

RECURSIVE DigitsOf(_)
DigitsOf(n) ==
    IF n < 10 THEN << Digits[n + 1] >>
    ELSE DigitsOf(n \div 10) \o << Digits[(n % 10) + 1] >>

\* StringOf, for the non-negative integers the model uses as numbers
StringOf(v) ==
    CASE v.t = "undefined" -> <<"u","n","d","e","f","i","n","e","d">>
      [] v.t = "null" -> <<"n","u","l","l">>
      [] v.t = "boolean" ->
            IF v.b THEN <<"t","r","u","e">> ELSE <<"f","a","l","s","e">>
      [] v.t = "number" -> DigitsOf(v.n)
      [] v.t = "string" -> v.s
      [] OTHER -> <<"f","u","n","c","t","i","o","n">>

\* JavaScript numbers as far as the evaluator needs them: NaN or an integer
NaN == [nan |-> TRUE, n |-> 0]
Number(n) == [nan |-> FALSE, n |-> n]

RECURSIVE DecimalOf(_)
DecimalOf(s) ==
    IF s = << >> THEN 0
    ELSE 10 * DecimalOf(SubSeq(s, 1, Len(s) - 1)) + DigitVal(s[Len(s)])

\* StringToNumber on texts of digits, letters and punctuation (no sign,
\* fraction or exponent): the trimmed text, "" is 0
StringToNumber(s) ==
    LET t == Trim(s)
    IN IF \A i \in 1..Len(t) : IsDigit(t[i]) THEN Number(DecimalOf(t)) ELSE NaN

\* ToNumber
ToNumber(v) ==
    CASE v.t = "undefined" -> NaN
      [] v.t = "null" -> Number(0)
      [] v.t = "boolean" -> Number(IF v.b THEN 1 ELSE 0)
      [] v.t = "number" -> Number(v.n)
      [] v.t = "string" -> StringToNumber(v.s)
      [] OTHER -> NaN

\* parseFloat: leading whitespace skipped, then the longest run of digits
parseFloat(v) ==
    LET s == StringOf(v)
        from == 1 + SpacesFrom(s, 1)
        n == CHOOSE k \in 0..Len(s) :
                 /\ from + k - 1 <= Len(s)
                 /\ \A j \in from..(from + k - 1) : IsDigit(s[j])
                 /\ (from + k > Len(s) \/ ~IsDigit(s[from + k]))
    IN IF n = 0 THEN NaN ELSE Number(DecimalOf(SubSeq(s, from, from + n - 1)))

NumLess(a, b) == ~a.nan /\ ~b.nan /\ a.n < b.n
NumEq(a, b) == ~a.nan /\ ~b.nan /\ a.n = b.n

\* v == s where s is a string (abstract equality comparison)
LooseEqualsString(v, s) ==
    CASE v.t = "undefined" -> FALSE
      [] v.t = "null" -> FALSE
      [] v.t = "string" -> v.s = s
      [] v.t = "function" -> FALSE
      [] OTHER -> NumEq(ToNumber(v), StringToNumber(s))

\* new RegExp(p) for patterns of literal characters: an unclosed group or
\* class is a SyntaxError
RegExpValid(p) == \A i \in 1..Len(p) : p[i] \notin {"(", "["}

\* regex.test(v) for a valid pattern of literal characters
RegExpTest(p, v) == Includes(StringOf(v), p)

-----------------------------------------------------------------------------
(* The conditional-expression evaluator *)

\* the alternatives of (==|!=|~=|>=|<=|>|<|matches), in the order tried
Operators ==
    << <<"=","=">>, <<"!","=">>, <<"~","=">>, <<">","=">>, <<"<","=">>,
       <<">">>, <<"<">>, <<"m","a","t","c","h","e","s">> >>

\* the characters i..i+n-1 of s are key characters: ([a-zA-Z0-9_]+)
KeyRun(s, i, n) ==
    n >= 1 /\ i + n - 1 <= Len(s) /\ \A j \in i..(i + n - 1) : KeyChar(s[j])

OpAt(s, p, op) == p + Len(op) - 1 <= Len(s) /\ SubSeq(s, p, p + Len(op) - 1) = op

\* \s*(\/.*\/|.+) from position q: the start and end of group 3, or <<0, 0>>
\* when it does not match.  \s* is greedy and gives back one space when the
\* text ends with it; \/.*\/ runs to the last slash.
ValueSpan(s, q) ==
    LET r == q + SpacesFrom(s, q)
        slashes == {j \in (r + 1)..Len(s) : s[j] = "/"}
    IN IF r <= Len(s)
       THEN IF s[r] = "/" /\ slashes # {}
            THEN <<r, CHOOSE j \in slashes : \A k \in slashes : k <= j>>
            ELSE <<r, Len(s)>>
       ELSE IF r > q THEN <<r - 1, Len(s)>> ELSE <<0, 0>>

\* the regular expression of parseCondition matches s with the key at i, of
\* length n, and the operator Operators[o]
MatchAt(s, i, n, o) ==
    /\ KeyRun(s, i, n)
    /\ LET p == i + n + SpacesFrom(s, i + n)
       IN /\ OpAt(s, p, Operators[o])
          /\ ValueSpan(s, p + Len(Operators[o])) # <<0, 0>>

Matches(s) ==
    {m \in (1..Len(s)) \X (1..Len(s)) \X (1..Len(Operators)) :
        MatchAt(s, m[1], m[2], m[3])}

\* the match the backtracking search finds first: leftmost start, longest key,
\* first operator alternative
FirstMatch(matches) ==
    CHOOSE m \in matches :
        \A x \in matches :
            \/ m[1] < x[1]
            \/ (m[1] = x[1] /\ m[2] > x[2])
            \/ (m[1] = x[1] /\ m[2] = x[2] /\ m[3] <= x[3])

\* [match[1], match[2], match[3]] for the match m, whose group 3 is v
matchGroups(condition, m, v) ==
    [stateKey |-> SubSeq(condition, m[1], m[1] + m[2] - 1),
     operator |-> Operators[m[3]],
     expectedValue |-> SubSeq(condition, v[1], v[2])]

matchResult(condition, m) ==
    matchGroups(condition, m,
                ValueSpan(condition, m[1] + m[2] + SpacesFrom(condition, m[1] + m[2])
                                     + Len(Operators[m[3]])))

parseMatches(condition, matches) ==
    IF matches = {}
    THEN [stateKey |-> condition, operator |-> << >>, expectedValue |-> << >>]
    ELSE matchResult(condition, FirstMatch(matches))

parseCondition(condition) == parseMatches(condition, Matches(condition))

\* State.get(key) on the object `store`
Get(store, key) == IF key \in DOMAIN store THEN store[key] ELSE Undefined

Route == <<"r","o","u","t","e">>
RouteStarts == Route \o <<"~","=">>
RouteIs == Route \o <<"=","=">>
RouteIsNot == Route \o <<"!","=">>
RouteHash == Route \o <<"#","=">>
MatchesOp == <<"m","a","t","c","h","e","s">>

\* the outcome of an evaluation: the value returned, whether it threw
\* instead, and whether console.error was called
Res(val, threw, logged) == [val |-> val, threw |-> threw, logged |-> logged]
Returns(val) == Res(val, FALSE, FALSE)
Throws == Res(FALSE, TRUE, FALSE)

\* standalone: State.get("route"), on which startsWith/includes is called;
\* a value that is not a string has no such method (TypeError)
currentRouteStandalone(store) ==
    LET r == Get(store, Route)
    IN [ok |-> r.t = "string", s |-> r.s]

\* UMD: String(State.get("route") || "")
currentRouteUmd(store) ==
    LET r == Get(store, Route)
    IN [ok |-> TRUE, s |-> IF Truthy(r) THEN StringOf(r) ELSE << >>]

currentRoute(store, b) ==
    IF b = "standalone" THEN currentRouteStandalone(store) ELSE currentRouteUmd(store)

\* /[=<>!~]|matches/.test(condition)
HasOperator(condition) ==
    \/ \E i \in 1..Len(condition) : condition[i] \in {"=", "<", ">", "!", "~"}
    \/ Includes(condition, MatchesOp)

\* s.replace(/^\/|\/$/g, "")
StripSlashes(s) ==
    LET a == IF s # << >> /\ s[1] = "/" THEN Tail(s) ELSE s
    IN IF a # << >> /\ a[Len(a)] = "/" THEN SubSeq(a, 1, Len(a) - 1) ELSE a

\* the catch block of the matches operator: the standalone build logs the
\* error, the UMD build only sets match = false
regexError(b) == Res(FALSE, FALSE, b = "standalone")

\* the operator `matches`
evaluateMatches(stateValue, expectedValue, b) ==
    LET regexPattern == StripSlashes(Trim(expectedValue))
    IN IF RegExpValid(regexPattern)
       THEN Returns(RegExpTest(regexPattern, stateValue))
       ELSE regexError(b)

\* the switch over the comparison operators
compare(stateValue, operator, expectedValue) ==
    LET l == parseFloat(stateValue)
        r == parseFloat(Str(expectedValue))
    IN CASE operator = <<"=","=">> -> LooseEqualsString(stateValue, Trim(expectedValue))
         [] operator = <<"!","=">> -> ~LooseEqualsString(stateValue, Trim(expectedValue))
         [] operator = <<"~","=">> ->
               stateValue.t = "string" /\ Includes(stateValue.s, Trim(expectedValue))
         [] operator = <<">">> -> NumLess(r, l)
         [] operator = <<"<">> -> NumLess(l, r)
         [] operator = <<">","=">> -> NumLess(r, l) \/ NumEq(l, r)
         [] operator = <<"<","=">> -> NumLess(l, r) \/ NumEq(l, r)
         [] OTHER -> FALSE

\* route==X: the route is X or starts with X#
routeEquals(cur, expected) == cur = expected \/ StartsWith(cur, expected \o <<"#">>)

\* a route!= that compares the whole route only
routeDiffersExactly(cur, expected) == cur # expected

\* route!=X
routeDiffers(cur, expected) == cur # expected /\ ~StartsWith(cur, expected \o <<"#">>)

\* the four route operators; cur is the current route
evaluateRoute(condition, cur) ==
    IF ~cur.ok THEN Throws
    ELSE Returns(
        CASE StartsWith(condition, RouteStarts) ->
                StartsWith(cur.s, Trim(RemoveFirst(condition, RouteStarts)))
          [] StartsWith(condition, RouteIs) ->
                routeEquals(cur.s, Trim(RemoveFirst(condition, RouteIs)))
          [] StartsWith(condition, RouteIsNot) ->
                routeDiffers(cur.s, Trim(RemoveFirst(condition, RouteIsNot)))
          [] OTHER ->
                /\ Includes(cur.s, <<"#">>)
                /\ StartsWith(cur.s, Trim(RemoveFirst(condition, RouteHash)) \o <<"#">>))

IsRouteCondition(condition) ==
    \E prefix \in {RouteStarts, RouteIs, RouteIsNot, RouteHash} :
        StartsWith(condition, prefix)

\* the rest of evaluateSingleCondition, after parseCondition
evaluateParsed(parsed, stateValue, b) ==
    IF parsed.operator = MatchesOp
    THEN evaluateMatches(stateValue, parsed.expectedValue, b)
    ELSE Returns(compare(stateValue, parsed.operator, parsed.expectedValue))

stateValueOf(parsed, store, b) ==
    evaluateParsed(parsed, Get(store, Trim(parsed.stateKey)), b)

evaluateSingleCondition(condition, store, b) ==
    IF StartsWith(condition, <<"!">>)
    THEN Returns(~Truthy(Get(store, Trim(Tail(condition)))))
    ELSE IF IsRouteCondition(condition)
    THEN evaluateRoute(condition, currentRoute(store, b))
    ELSE IF ~HasOperator(condition)
    THEN Returns(Truthy(Get(store, condition)))
    ELSE stateValueOf(parseCondition(condition), store, b)

\* the results of a sequence of evaluations that stops at the first one
\* for which Stop holds: the stopping result, or the value `otherwise` when
\* none stops, with what the evaluations up to there logged
firstStop(results, stops, otherwise) ==
    LET at == IF stops = {} THEN Len(results)
                ELSE CHOOSE i \in stops : \A j \in stops : i <= j
    IN [val |-> IF stops = {} THEN otherwise ELSE results[at].val,
        threw |-> stops # {} /\ results[at].threw,
        logged |-> \E i \in 1..at : results[i].logged]

\* orPart.split(/\s*&&\s*/).every(andPart => evaluateSingleCondition(andPart.trim()))
everyResults(results) ==
    firstStop(results,
              {i \in 1..Len(results) : results[i].threw \/ ~results[i].val}, TRUE)

everyParts(parts, store, b) ==
    everyResults([i \in 1..Len(parts) |-> evaluateSingleCondition(Trim(parts[i]), store, b)])

everyAnd(orPart, store, b) == everyParts(SplitOn(orPart, <<"&","&">>), store, b)

\* condition.split(/\s*\|\|\s*/).some(orPart => ...)
someResults(results) ==
    firstStop(results,
              {i \in 1..Len(results) : results[i].threw \/ results[i].val}, FALSE)

someParts(parts, store, b) ==
    someResults([i \in 1..Len(parts) |-> everyAnd(parts[i], store, b)])

evaluateCondition(condition, store, b) ==
    someParts(SplitOn(condition, <<"|","|">>), store, b)

-----------------------------------------------------------------------------
(* Objects, the storage record, the document *)

\* an object is a function from its own keys to values
EmptyObject == [k \in {} |-> Undefined]
With(obj, key, value) == [k \in DOMAIN obj \cup {key} |-> IF k = key THEN value ELSE obj[k]]

\* an object literal { k1: v1, k2: v2, ... } given as its entries in order
RECURSIVE FromEntries(_)
FromEntries(entries) ==
    IF entries = << >> THEN EmptyObject
    ELSE With(FromEntries(SubSeq(entries, 1, Len(entries) - 1)),
              entries[Len(entries)][1], entries[Len(entries)][2])

\* the item "state" of localStorage
NoItem == [kind |-> "none", obj |-> EmptyObject]
Garbage == [kind |-> "garbage", obj |-> EmptyObject]

\* JSON.stringify(obj): properties whose value is undefined or a function
\* are left out
stringify(obj) ==
    [kind |-> "json",
     obj |-> [k \in {x \in DOMAIN obj : obj[x].t \notin {"undefined", "function"}} |-> obj[k]]]

\* JSON.parse(localStorage.getItem("state")) || {} ; ok is FALSE when
\* JSON.parse throws a SyntaxError
parseStored(item) ==
    CASE item.kind = "none" -> [ok |-> TRUE, obj |-> EmptyObject]
      [] item.kind = "json" -> [ok |-> TRUE, obj |-> item.obj]
      [] OTHER -> [ok |-> FALSE, obj |-> EmptyObject]

KeyA == <<"a">>
KeyB == <<"b">>
PwaInstallPrompt == <<"p","w","a","I","n","s","t","a","l","l","P","r","o","m","p","t">>
ShowInstallButton == <<"s","h","o","w","I","n","s","t","a","l","l","B","u","t","t","o","n">>

PathRoot == <<"/">>
PathA == <<"/","a">>
PathAHash == <<"/","a","#","h">>

\* the application's document: two elements with a show-if attribute and a
\* text input with data-bind, in document order
ShowOrder == <<"panel", "page">>
ShowEls == {"panel", "page"}
ShowIf == [e \in ShowEls |-> IF e = "panel" THEN KeyA ELSE RouteIs \o PathA]
BoundEls == {"field"}
DataBind == [e \in BoundEls |-> KeyA]

\* the state an operation works on: the parts of the program state a handler
\* can change, and what the handler did so far
\*   changed: the keys whose value the proxy changed
\*   calls:   the subscriber callbacks invoked, each with its argument
\*   failed:  a localStorage.setItem call threw
\*   threw:   an exception is propagating; the rest of the handler is skipped
Machine ==
    [data |-> data, storage |-> storage, display |-> display,
     inputValue |-> inputValue, raf |-> raf, subscribers |-> subscribers,
     changed |-> {}, calls |-> << >>, failed |-> FALSE, threw |-> FALSE]

requestAnimationFrame(m, callback) == [m EXCEPT !.raf = @ \cup {callback}]

\* requestAnimationFrame(updateVisibility); requestAnimationFrame(updateClasses)
requestUpdates(m) ==
    IF m.threw THEN m
    ELSE requestAnimationFrame(requestAnimationFrame(m, "updateVisibility"),
                               "updateClasses")

-----------------------------------------------------------------------------
(* The handlers, as steps on the machine state.  A step does nothing once an
   exception is propagating. *)

\* one element of updateVisibility: r is what evaluating its show-if gave
showResult(m, e, r) ==
    [m EXCEPT !.display[e] = IF r.threw THEN @ ELSE r.val, !.threw = r.threw]

\* an empty attribute is not evaluated: shouldShow stays false
showElement(m, e) ==
    showResult(m, e,
               IF ShowIf[e] = << >> THEN Returns(FALSE)
               ELSE evaluateCondition(Trim(ShowIf[e]), m.data, build))

\* the forEach of updateVisibility over the elements with show-if, in
\* document order; element.showIf is a function on none of them
RECURSIVE showEach(_, _)
showEach(m, els) ==
    IF els = << >> \/ m.threw THEN m
    ELSE showEach(showElement(m, Head(els)), Tail(els))

\* the frame it requests for trackOnShowElements is left out: the document
\* holds no element with an onShow attribute, so that callback does nothing
updateVisibility(m) ==
    IF m.threw \/ ~mounted THEN m ELSE showEach(m, ShowOrder)

\* the document of the model holds no element with class-if
updateClasses(m) == m

\* element.value = value || ''  (standalone)
inputTextStandalone(value) == IF Truthy(value) THEN StringOf(value) ELSE << >>

\* element.value = value ?? ''  (UMD)
inputTextUmd(value) ==
    IF value.t \in {"undefined", "null"} THEN << >> ELSE StringOf(value)

inputText(value) ==
    IF build = "standalone" THEN inputTextStandalone(value) ELSE inputTextUmd(value)

updateDOM(m, key, value) ==
    IF m.threw THEN m
    ELSE requestUpdates(
             IF mounted
             THEN [m EXCEPT !.inputValue =
                      [e \in BoundEls |->
                          IF DataBind[e] = key THEN inputText(value) ELSE @[e]]]
             ELSE m)

\* a store that writes its record only when localStorage holds none
setItemOnce(m) ==
    IF quota
    THEN [m EXCEPT !.failed = TRUE, !.threw = (build = "standalone")]
    ELSE IF m.storage.kind = "json" THEN m
    ELSE [m EXCEPT !.storage = stringify(m.data)]

\* localStorage.setItem("state", JSON.stringify(this.data)); the UMD build
\* ignores the exception of a failing write, the standalone build does not
setItem(m) ==
    IF quota
    THEN [m EXCEPT !.failed = TRUE, !.threw = (build = "standalone")]
    ELSE [m EXCEPT !.storage = stringify(m.data)]

updateLocalStorage(m, key, value) ==
    IF m.threw THEN m
    ELSE updateClasses(updateVisibility(updateDOM(setItem(m), key, value)))

\* a === b on the values of the model
sameValue(a, b) == a = b

strictEquals(a, b) == a = b /\ a # NaNValue

\* the set trap of the proxy made by reactive(obj, callback), with a
\* callback that records its arguments and the target it finds
proxySet(target, key, value) ==
    IF strictEquals(Get(target, key), value)
    THEN [target |-> target, seen |-> << >>]
    ELSE [target |-> With(target, key, value),
          seen |-> << [key |-> key, value |-> value,
                       target |-> With(target, key, value)] >>]

\* the set trap of the proxy made by reactive(obj, callback), with
\* updateLocalStorage as the callback
reactiveSet(m, key, value) ==
    IF m.threw \/ strictEquals(Get(m.data, key), value) THEN m
    ELSE updateLocalStorage(
             [m EXCEPT !.data = With(m.data, key, value), !.changed = @ \cup {key}],
             key, value)

\* this.subscribers[key].forEach(callback => callback(value))
notify(m, key, value) ==
    IF m.threw THEN m
    ELSE [m EXCEPT !.calls =
             @ \o [i \in 1..Len(m.subscribers[key]) |-> <<m.subscribers[key][i], value>>]]

\* the forEach of State.set over Object.entries(properties)
RECURSIVE setEach(_, _)
setEach(m, entries) ==
    IF entries = << >> THEN m
    ELSE setEach(notify(reactiveSet(m, Head(entries)[1], Head(entries)[2]),
                        Head(entries)[1], Head(entries)[2]),
                 Tail(entries))

\* State.set(properties)
set(m, properties) == requestUpdates(setEach(m, properties))

\* Object.assign(this.data, initialState): one proxy set per entry
RECURSIVE assignEach(_, _)
assignEach(m, entries) ==
    IF entries = << >> THEN m
    ELSE assignEach(reactiveSet(m, Head(entries)[1], Head(entries)[2]), Tail(entries))

\* the forEach of reset over the elements with data-bind, show-if or
\* class-if: an INPUT that is no checkbox gets initialState[bindKey] || "";
\* show-if and class-if are touched only when the store holds a function
\* under the attribute text, and no store of the model holds a function
resetElements(m, initialState) ==
    IF m.threw \/ ~mounted THEN m
    ELSE [m EXCEPT !.inputValue =
             [e \in BoundEls |->
                 inputTextStandalone(Get(FromEntries(initialState), DataBind[e]))]]

\* the form fields of the document, in document order: two inputs inside
\* <form group="g">, the second without a valid-if attribute, and a textarea
\* inside <form group="o">
FieldOrder == <<"email", "plain", "note">>
Fields == {"email", "plain", "note"}
GroupG == <<"g">>
GroupO == <<"o">>
FieldTag == [f \in Fields |-> IF f = "note" THEN "textarea" ELSE "input"]
FieldGroup == [f \in Fields |-> IF f = "note" THEN GroupO ELSE GroupG]
FieldBind ==
    [f \in Fields |->
        CASE f = "email" -> <<"e">>
          [] f = "plain" -> <<"p">>
          [] f = "note" -> <<"t">>]
HasValidIf == {"email", "note"}

\* `${key}_valid` and `${key}_invalid`
validKey(key) == key \o <<"_","v","a","l","i","d">>
invalidKey(key) == key \o <<"_","i","n","v","a","l","i","d">>

\* the keys every object of the model draws from
StoreKeys ==
    {KeyA, KeyB, Route, PwaInstallPrompt, ShowInstallButton}
    \cup {validKey(k) : k \in {FieldBind[f] : f \in Fields} \cup {GroupG, GroupO}}
    \cup {invalidKey(k) : k \in {FieldBind[f] : f \in Fields} \cup {GroupG, GroupO}}

NoSubscribers == [k \in StoreKeys |-> << >>]

\* State.reset(initialState)
reset(m, initialState) ==
    resetElements(
        assignEach([m EXCEPT !.data = EmptyObject, !.subscribers = NoSubscribers],
                   initialState),
        initialState)

\* path.split('#'): the text before the first # and the text between the
\* first and the second #, undefined when the path has no #
splitHash(path) ==
    LET hashes == {i \in 1..Len(path) : path[i] = "#"}
        first == CHOOSE i \in hashes : \A j \in hashes : i <= j
        rest == SubSeq(path, first + 1, Len(path))
        more == {i \in 1..Len(rest) : rest[i] = "#"}
        second == CHOOSE i \in more : \A j \in more : i <= j
    IN IF hashes = {} THEN [pathname |-> path, hash |-> Undefined]
       ELSE [pathname |-> SubSeq(path, 1, first - 1),
             hash |-> Str(IF more = {} THEN rest ELSE SubSeq(rest, 1, second - 1))]

\* hash ? `${pathname}#${hash}` : pathname
fullPathOf(path) ==
    LET p == splitHash(path)
    IN IF Truthy(p.hash) THEN p.pathname \o <<"#">> \o p.hash.s ELSE p.pathname

\* the options argument of navigate: a boolean or an object
BoolOption(b) == [object |-> FALSE, b |-> b, entries |-> << >>]
ObjectOption(entries) == [object |-> TRUE, b |-> FALSE, entries |-> entries]

\* { route: fullPath, ...stateToSet }: a route property of stateToSet
\* replaces the value of the first property
routeProperties(fullPath, stateToSet) ==
    LET others == SelectSeq(stateToSet, LAMBDA e : e[1] # Route)
        own == SelectSeq(stateToSet, LAMBDA e : e[1] = Route)
    IN << <<Route, IF own = << >> THEN Str(fullPath) ELSE own[Len(own)][2]>> >> \o others

HistoryEntry(url, path) == [url |-> url, path |-> path]

\* a navigate that calls history.pushState whatever shouldReplace is
writeHistoryPush(h, i, shouldReplace, fullPath) ==
    [h |-> Append(SubSeq(h, 1, i), HistoryEntry(fullPath, Str(fullPath))), i |-> i + 1]

\* history.pushState / history.replaceState with { path: fullPath } and the
\* URL fullPath, on the session history h with current index i
writeHistory(h, i, shouldReplace, fullPath) ==
    IF shouldReplace
    THEN [h |-> [h EXCEPT ![i] = HistoryEntry(fullPath, Str(fullPath))], i |-> i]
    ELSE [h |-> Append(SubSeq(h, 1, i), HistoryEntry(fullPath, Str(fullPath))), i |-> i + 1]

\* the fields validate and resetValidation collect: those inside the first
\* element with group=groupName, the fields with group=groupName themselves,
\* and the matches of the selector list `[group="${groupName}"] input`,
\* `select`, `textarea`, which holds every select and textarea of the document
selectFields(groupName) ==
    {f \in Fields : FieldGroup[f] = groupName \/ FieldTag[f] \in {"select", "textarea"}}

\* the fields whose valid-if function validate calls
validated(groupName) ==
    {f \in selectFields(groupName) : f \in HasValidIf /\ FieldBind[f] # << >>}

\* field.classList.toggle("valid", isValid);
\* field.classList.toggle("invalid", !isValid)
toggleClasses(classes, isValid) ==
    (classes \ {"valid", "invalid"}) \cup {IF isValid THEN "valid" ELSE "invalid"}

\* the classes after the forEach of validate; outcomes gives what each
\* valid-if function does: "true", "false" or "throws"
validateClasses(classes, groupName, outcomes) ==
    [f \in Fields |->
        IF f \in validated(groupName) /\ outcomes[f] # "throws"
        THEN toggleClasses(classes[f], outcomes[f] = "true")
        ELSE classes[f]]

\* validationStates, as its entries in the order of the fields
RECURSIVE validationStates(_, _, _)
validationStates(order, groupName, outcomes) ==
    IF order = << >> THEN << >>
    ELSE (IF Head(order) \in validated(groupName) /\ outcomes[Head(order)] # "throws"
          THEN << <<validKey(FieldBind[Head(order)]), Bool(outcomes[Head(order)] = "true")>>,
                  <<invalidKey(FieldBind[Head(order)]), Bool(outcomes[Head(order)] # "true")>> >>
          ELSE << >>)
         \o validationStates(Tail(order), groupName, outcomes)

allValid(groupName, outcomes) ==
    \A f \in validated(groupName) : outcomes[f] = "true"

\* { [`${groupName}_valid`]: allValid, [`${groupName}_invalid`]: !allValid }
groupStates(groupName, valid, invalid) ==
    << <<validKey(groupName), valid>>, <<invalidKey(groupName), invalid>> >>

\* the two State.set calls of validate(groupName)
validate(m, groupName, outcomes) ==
    set(set(m, validationStates(FieldOrder, groupName, outcomes)),
        groupStates(groupName, Bool(allValid(groupName, outcomes)),
                    Bool(~allValid(groupName, outcomes))))

\* a resetValidation that removes the class invalid only
removeInvalid(classes) == classes \ {"invalid"}

\* field.classList.remove("valid", "invalid")
removeClasses(classes) == classes \ {"valid", "invalid"}

\* the classes after the forEach of resetValidation
resetClasses(classes, groupName) ==
    [f \in Fields |->
        IF f \in selectFields(groupName) /\ FieldBind[f] # << >>
        THEN removeClasses(classes[f])
        ELSE classes[f]]

\* validationStates of resetValidation, as its entries in the order of the
\* fields
RECURSIVE resetStates(_, _)
resetStates(order, groupName) ==
    IF order = << >> THEN << >>
    ELSE (IF Head(order) \in selectFields(groupName) /\ FieldBind[Head(order)] # << >>
          THEN << <<validKey(FieldBind[Head(order)]), Undefined>>,
                  <<invalidKey(FieldBind[Head(order)]), Undefined>> >>
          ELSE << >>)
         \o resetStates(Tail(order), groupName)

\* the two State.set calls of resetValidation(groupName)
resetValidation(m, groupName) ==
    set(set(m, resetStates(FieldOrder, groupName)),
        groupStates(groupName, Undefined, Undefined))

-----------------------------------------------------------------------------
(* updateClasses, on an element with a class-if attribute *)

\* s.split(c) for a one-character separator
RECURSIVE Split(_, _)
Split(s, c) ==
    IF ~Includes(s, <<c>>) THEN << s >>
    ELSE LET at == CHOOSE a \in 1..Len(s) :
                       s[a] = c /\ \A b \in 1..(a-1) : s[b] # c
         IN << SubSeq(s, 1, at - 1) >> \o Split(SubSeq(s, at + 1, Len(s)), c)

\* the i-th name of a destructuring of parts.map(s => s.trim()); a name
\* with no part is undefined, which the code only tests for truthiness
part(parts, i) == IF i <= Len(parts) THEN Trim(parts[i]) ELSE << >>

\* getAttribute("class-if").split(";").map(rule => rule.trim()); the UMD
\* build drops the empty rules
classRules(attribute) ==
    SelectSeq([i \in 1..Len(Split(attribute, ";")) |-> Trim(Split(attribute, ";")[i])],
              LAMBDA rule : build = "standalone" \/ rule # << >>)

\* element.classList.toggle(token, force): it throws on an empty token and
\* on a token with whitespace
toggle(st, token, force) ==
    IF st.threw THEN st
    ELSE IF token = << >> \/ Includes(token, <<" ">>) THEN [st EXCEPT !.threw = TRUE]
    ELSE [st EXCEPT !.classes = IF force THEN @ \cup {token} ELSE @ \ {token}]

\* the UMD build toggles trueClass only when it is not empty
toggleTrue(st, trueClass, match) ==
    IF build = "umd" /\ trueClass = << >> THEN st ELSE toggle(st, trueClass, match)

toggleFalse(st, falseClass, match) ==
    IF falseClass = << >> THEN st ELSE toggle(st, falseClass, ~match)

\* match = evaluateCondition(condition) gave r; then the two toggles
toggleBoth(st, trueClass, falseClass, r) ==
    IF r.threw THEN [st EXCEPT !.threw = TRUE]
    ELSE toggleFalse(toggleTrue(st, trueClass, r.val), falseClass, r.val)

\* const [trueClass, falseClass] = classes.split(":").map(s => s.trim())
conditionClasses(st, condition, classes, store) ==
    toggleBoth(st, part(classes, 1), part(classes, 2),
               evaluateCondition(condition, store, build))

\* a rule that includes "?":
\* const [condition, classes] = rule.split("?").map(s => s.trim())
conditionRule(st, parts, store) ==
    conditionClasses(st, part(parts, 1), Split(part(parts, 2), ":"), store)

\* a rule that includes ":" and no "?":
\* const [stateKey, className] = rule.split(":").map(s => s.trim())
keyRule(st, parts, store) ==
    toggle(st, part(parts, 2), Truthy(Get(store, part(parts, 1))))

classRule(st, rule, store) ==
    IF st.threw THEN st
    ELSE IF Includes(rule, <<"?">>) THEN conditionRule(st, Split(rule, "?"), store)
    ELSE IF Includes(rule, <<":">>) THEN keyRule(st, Split(rule, ":"), store)
    ELSE st

\* classRules.forEach(rule => ...)
RECURSIVE classRuleEach(_, _, _)
classRuleEach(st, rules, store) ==
    IF rules = << >> THEN st
    ELSE classRuleEach(classRule(st, Head(rules), store), Tail(rules), store)

\* updateClasses for one element: the classes it had, its class-if
\* attribute, and the store
updateClassList(classes, attribute, store) ==
    classRuleEach([classes |-> classes, threw |-> FALSE], classRules(attribute), store)

-----------------------------------------------------------------------------
(* Bounds and inputs *)

\* the longest session history, and the most callbacks subscribed to a key
MaxHistory == 2
MaxSubscribers == 1
\* the constructor calls of a run
MaxNews == 3
\* the most registrations on a key, where several callbacks subscribe
MaxRegistrations == 3

Builds == {"standalone", "umd"}
Callbacks == {"cb1", "cb2"}

\* the storage records a page can find when it loads: none, one written by
\* an earlier session, one that is no JSON text
StoredItems ==
    {NoItem, Garbage,
     stringify(FromEntries(<< <<KeyA, Bool(TRUE)>>, <<Route, Str(PathA)>> >>))}

\* the arguments of State.set
SetInputs ==
    { << <<KeyA, Bool(TRUE)>> >>,
      << <<KeyA, Undefined>> >>,
      << <<KeyA, Bool(TRUE)>>, <<KeyB, Bool(TRUE)>> >> }

\* direct assignments on State.getData()
AssignInputs == { <<KeyA, Bool(FALSE)>> }

\* the texts a user types into the bound input
TypedTexts == { <<"x">> }

\* the arguments of State.reset
ResetInputs == { << >>, << <<KeyA, Bool(TRUE)>> >> }

\* the calls of navigate: path, options, replace
NavigateInputs ==
    { <<PathRoot, BoolOption(FALSE), FALSE>>,
      <<PathA, BoolOption(FALSE), FALSE>>,
      <<PathAHash, BoolOption(TRUE), FALSE>>,
      <<PathRoot, ObjectOption(<< <<KeyB, Bool(TRUE)>> >>), FALSE>>,
      <<PathA, ObjectOption(<< <<Route, Str(PathRoot)>> >>), TRUE>> }

-----------------------------------------------------------------------------
(* The operations *)

NoResult == [done |-> FALSE, val |-> FALSE, threw |-> FALSE, logged |-> FALSE]

\* what the last operation did
\*   path:  the full path a navigate call asked for
\*   acted: the navigate call went past its early return
\*   item:  the kind of storage record the constructor found
\*   replace: the navigate call was to replace the current history entry
\*   group, checked, outcomes, ret: the group a validate or resetValidation
\*          call named, the fields whose valid-if function validate called,
\*          what each call gave, and what validate returned
\*   key, value, seen: the property an assignment on a reactive object
\*          named, the value it assigned, and the calls of the callback
\*   removed: the registrations an unsubscribe function took away
Last(op, m, path) ==
    [op |-> op, changed |-> m.changed, calls |-> m.calls, failed |-> m.failed,
     threw |-> m.threw, path |-> path, acted |-> FALSE, item |-> "none",
     replace |-> FALSE, group |-> << >>, checked |-> {}, outcomes |-> << >>,
     ret |-> FALSE, key |-> << >>, value |-> Undefined, seen |-> << >>,
     removed |-> 0]

Apply(m) ==
    /\ data' = m.data
    /\ storage' = m.storage
    /\ display' = m.display
    /\ inputValue' = m.inputValue
    /\ raf' = m.raf
    /\ subscribers' = m.subscribers

\* the page before the library is loaded: the storage record is one of
\* items, and localStorage refuses writes or not as quotas says
\* an anchor made by h("a", {href, onClick}) or Link: onClick.present tells
\* whether it has an onClick handler, first and second what the handler
\* returns when it is called the first and the second time for one event
OnClick(present, first, second) ==
    [present |-> present, first |-> first, second |-> second]

NoOnClick == OnClick(FALSE, "undefined", "undefined")

\* a click event: the anchor, whether a listener called preventDefault,
\* whether navigate(href) was called, how often the handler was called
ClickEvent(href, onClick, prevented, navigated, calls) ==
    [href |-> href, onClick |-> onClick, prevented |-> prevented,
     navigated |-> navigated, calls |-> calls]

NoClick == ClickEvent(<< >>, NoOnClick, FALSE, FALSE, 0)

\* StateSingleton.instance is not set (instance 0), and no constructor call
\* was made.  instance and returned number the objects by the constructor
\* call that made them (returned 0: the call threw); reads, binds, routes
\* and pwa count the storage reads, the bindInputs calls, the route
\* assignments and the initPWA calls
NoSingleton ==
    [instance |-> 0, news |-> 0, returned |-> 0, reads |-> 0, binds |-> 0,
     routes |-> 0, pwa |-> 0]

Unloaded(items, quotas) ==
    /\ build \in Builds
    /\ pc = "unloaded"
    /\ storage \in items
    /\ quota \in quotas
    /\ data = EmptyObject
    /\ subscribers = NoSubscribers
    /\ mounted = FALSE
    /\ display = [e \in ShowEls |-> TRUE]
    /\ inputValue = [e \in BoundEls |-> << >>]
    /\ raf = {}
    /\ location = PathAHash
    /\ history = << [url |-> location, path |-> Undefined] >>
    /\ hindex = 1
    /\ last = Last("none", Machine, << >>)
    /\ cond = << >>
    /\ res = NoResult
    /\ classList = [f \in Fields |-> {}]
    /\ singleton = NoSingleton
    /\ click = NoClick

Init == Unloaded(StoredItems, {FALSE})

\* new StateSingleton(), the first one.  JSON.parse is guarded in the UMD
\* build only.
constructorParse(item) ==
    IF build = "umd" /\ ~parseStored(item).ok
    THEN [ok |-> TRUE, obj |-> EmptyObject]
    ELSE parseStored(item)

\* the constructor from `this.data = reactive(storedData, ...)` on
constructed(storedData) ==
    reactiveSet([Machine EXCEPT !.data = storedData], Route, Str(location))

\* the constructor went through the body of `if (!StateSingleton.instance)`:
\* it read the storage item, registered the change listener (bindInputs),
\* set StateSingleton.instance, assigned the route and, when that did not
\* throw, initialised the PWA state
Constructed(m, item) ==
    /\ pc' = IF m.threw THEN "crashed" ELSE "constructed"
    /\ last' = [Last("construct", m, << >>) EXCEPT !.item = item]
    /\ singleton' = [singleton EXCEPT
                         !.news = @ + 1, !.reads = @ + 1, !.binds = @ + 1,
                         !.routes = @ + 1,
                         !.instance = singleton.news + 1,
                         !.pwa = IF m.threw THEN @ ELSE @ + 1,
                         !.returned = IF m.threw THEN 0 ELSE singleton.news + 1]
    /\ Apply(IF m.threw THEN m ELSE requestAnimationFrame(m, "init"))

\* new StateSingleton() while StateSingleton.instance is not set
Constructor ==
    /\ \E parsed \in {constructorParse(storage)} :
           IF ~parsed.ok
           THEN /\ pc' = "crashed"
                /\ last' = [Last("construct", [Machine EXCEPT !.threw = TRUE], << >>)
                                EXCEPT !.item = storage.kind]
                /\ singleton' = [singleton EXCEPT !.news = @ + 1, !.reads = @ + 1,
                                                  !.returned = 0]
                /\ UNCHANGED <<data, storage, display, inputValue, raf, subscribers>>
           ELSE \E m \in {constructed(With(With(parsed.obj, PwaInstallPrompt, Null),
                                           ShowInstallButton, Bool(FALSE)))} :
                    Constructed(m, storage.kind)
    /\ UNCHANGED <<build, quota, mounted, location, history, hindex, cond, res, classList, click>>

\* `const State = new StateSingleton()`, when the library is loaded
Construct ==
    /\ pc = "unloaded"
    /\ Constructor

\* a later `new StateSingleton()`: the constructor returns
\* StateSingleton.instance when it is set, and runs its body when not
NewStateSingleton ==
    /\ pc # "unloaded"
    /\ singleton.news < MaxNews
    /\ IF singleton.instance = 0
       THEN Constructor
       ELSE /\ singleton' = [singleton EXCEPT !.news = @ + 1,
                                              !.returned = singleton.instance]
            /\ last' = Last("new", Machine, << >>)
            /\ UNCHANGED <<build, pc, storage, quota, data, subscribers, mounted,
                           display, inputValue, raf, location, history, hindex,
                           cond, res, classList, click>>

\* the application appends its elements to the document, in the script that
\* loaded the library
Mount ==
    /\ pc = "constructed"
    /\ pc' = "ready"
    /\ mounted' = TRUE
    /\ last' = Last("mount", Machine, << >>)
    /\ UNCHANGED <<build, storage, quota, data, subscribers, display, inputValue,
                   raf, location, history, hindex, cond, res, classList, singleton, click>>

\* localStorage starts to refuse writes: its quota is used up
QuotaExceeded ==
    /\ pc # "crashed"
    /\ ~quota
    /\ quota' = TRUE
    /\ UNCHANGED <<build, pc, storage, data, subscribers, mounted, display, inputValue,
                   raf, location, history, hindex, last, cond, res, classList, singleton, click>>

Operation(op, m, path) ==
    /\ \E n \in {m} : Apply(n) /\ last' = Last(op, n, path)
    /\ UNCHANGED <<build, pc, quota, mounted, location, history, hindex, cond, res, classList, singleton, click>>

Set(properties) ==
    /\ pc = "ready"
    /\ Operation("set", set(Machine, properties), << >>)

\* State.getData()[key] = value
Assign(key, value) ==
    /\ pc = "ready"
    /\ Operation("assign", reactiveSet(Machine, key, value), << >>)

\* the keys State.subscribe is called with
SubscribeKeys == {KeyA}

\* State.subscribe(key, callback)
SubscribeUpTo(key, callback, most) ==
    /\ pc = "ready"
    /\ Len(subscribers[key]) < most
    /\ Operation("subscribe",
                 [Machine EXCEPT !.subscribers[key] = Append(@, callback),
                                 !.calls = << <<callback, Get(data, key)>> >>],
                 << >>)

Subscribe(key, callback) == SubscribeUpTo(key, callback, MaxSubscribers)

\* the function State.subscribe(key, callback) returned, called while
\* this.subscribers[key] holds the callback (after State.reset() emptied
\* this.subscribers the function throws and changes nothing)
Unsubscribe(key, callback) ==
    /\ pc = "ready"
    /\ \E i \in 1..Len(subscribers[key]) : subscribers[key][i] = callback
    /\ \E m \in {[Machine EXCEPT !.subscribers[key] =
                                      SelectSeq(@, LAMBDA cb : cb # callback)]} :
           /\ Apply(m)
           /\ last' = [Last("unsubscribe", m, << >>) EXCEPT
                           !.key = key,
                           !.removed = Len(subscribers[key]) - Len(m.subscribers[key])]
    /\ UNCHANGED <<build, pc, quota, mounted, location, history, hindex, cond, res,
                   classList, singleton, click>>

\* the change listener of bindInputs, after the user gave the input e the
\* value text (no element of the document is a checkbox)
Change(e, text) ==
    /\ pc = "ready"
    /\ inputValue[e] # text
    /\ LET key == DataBind[e]
           typed == [Machine EXCEPT !.inputValue[e] = text]
       IN Operation("change",
                    updateClasses(updateVisibility(
                        updateDOM(reactiveSet(typed, key, Str(text)), key, Str(text)))),
                    << >>)

Reset(initialState) ==
    /\ pc = "ready"
    /\ Operation("reset", reset(Machine, initialState), << >>)

\* navigate(path, options, replace), called as op while the session
\* history is h with current index i and the document's URL is loc
navigateFrom(op, path, options, replace, h, i, loc) ==
    LET fullPath == fullPathOf(path)
        stateToSet == IF options.object THEN options.entries ELSE << >>
        shouldReplace == IF options.object THEN replace ELSE options.b
        written == writeHistory(h, i, shouldReplace, fullPath)
    IN IF Str(fullPath) = Get(data, Route)
       THEN /\ last' = [Last(op, Machine, fullPath) EXCEPT !.replace = shouldReplace]
            /\ history' = h
            /\ hindex' = i
            /\ location' = loc
            /\ UNCHANGED <<data, storage, display, inputValue, raf, subscribers>>
       ELSE \E m \in {set(Machine, routeProperties(fullPath, stateToSet))} :
            /\ shouldReplace \/ i < MaxHistory
            /\ Apply(m)
            /\ last' = [Last(op, m, fullPath) EXCEPT !.acted = TRUE,
                                                     !.replace = shouldReplace]
            /\ IF m.threw
               THEN /\ history' = h
                    /\ hindex' = i
                    /\ location' = loc
               ELSE /\ history' = written.h
                    /\ hindex' = written.i
                    /\ location' = fullPath

\* a call of navigate(path, options, replace) by the application
Navigate(path, options, replace) ==
    /\ pc = "ready"
    /\ navigateFrom("navigate", path, options, replace, history, hindex, location)
    /\ UNCHANGED <<build, pc, quota, mounted, cond, res, classList, singleton, click>>

\* the two URLs differ in their fragment only
FragmentChange(old, new) ==
    old # new /\ splitHash(old).pathname = splitHash(new).pathname

\* event.state?.path || "/" for the history entry the browser went to
statePath(entry) == IF Truthy(entry.path) THEN entry.path.s ELSE PathRoot

\* the browser goes to the history entry i (back or forward) and fires
\* popstate with the entry's state: navigate(event.state?.path || "/", true).
\* A hashchange event follows when only the fragment of the URL changed.
Traverse(i) ==
    /\ pc = "ready"
    /\ i \in 1..Len(history)
    /\ navigateFrom("popstate", statePath(history[i]), BoolOption(TRUE), FALSE,
                    history, i, history[i].url)
    /\ pc' = IF FragmentChange(location, history[i].url) THEN "hashchange" ELSE "ready"
    /\ UNCHANGED <<build, quota, mounted, cond, res, classList, singleton, click>>

Back == Traverse(hindex - 1)

Forward == Traverse(hindex + 1)

\* the user follows a link to a fragment of the current document: the
\* browser adds a history entry with no state and fires hashchange
NativeHash(fragment) ==
    /\ pc = "ready"
    /\ hindex < MaxHistory
    /\ \E url \in {splitHash(location).pathname \o <<"#">> \o fragment} :
           /\ url # location
           /\ history' = Append(SubSeq(history, 1, hindex), HistoryEntry(url, Undefined))
           /\ location' = url
    /\ hindex' = hindex + 1
    /\ pc' = "hashchange"
    /\ last' = Last("hash", Machine, << >>)
    /\ UNCHANGED <<build, storage, quota, data, subscribers, mounted, display,
                   inputValue, raf, cond, res, classList, singleton, click>>

\* the hashchange listener
HashChange ==
    /\ pc = "hashchange"
    /\ pc' = "ready"
    /\ \E m \in {IF Get(data, Route) # Str(location)
                 THEN set(Machine, << <<Route, Str(location)>> >>)
                 ELSE Machine} :
           Apply(m) /\ last' = Last("hashchange", m, << >>)
    /\ UNCHANGED <<build, quota, mounted, location, history, hindex, cond, res, classList, singleton, click>>

\* the DOMContentLoaded listener: navigate(State.get('route') || '/', true),
\* once the script that loaded the library and rendered the application ended
DOMContentLoaded ==
    /\ pc = "ready"
    /\ last.op = "mount"
    /\ navigateFrom("load",
                    IF Truthy(Get(data, Route)) THEN Get(data, Route).s ELSE PathRoot,
                    BoolOption(TRUE), FALSE, history, hindex, location)
    /\ UNCHANGED <<build, pc, quota, mounted, cond, res, classList, singleton, click>>

\* the constructor's animation-frame callback: updateDOM for every key of
\* the store, then updateVisibility and updateClasses
RECURSIVE updateDOMEach(_, _)
updateDOMEach(m, keys) ==
    IF keys = {} THEN m
    ELSE LET key == CHOOSE k \in keys : TRUE
         IN updateDOMEach(updateDOM(m, key, m.data[key]), keys \ {key})

initialRender(m) ==
    updateClasses(updateVisibility(updateDOMEach(m, DOMAIN m.data)))

\* one animation-frame callback; an exception it throws is reported and
\* does not reach the other callbacks
runCallback(m, callback) ==
    LET n == CASE callback = "init" -> initialRender(m)
               [] callback = "updateVisibility" -> updateVisibility(m)
               [] callback = "updateClasses" -> updateClasses(m)
               [] OTHER -> m
    IN [n EXCEPT !.threw = FALSE]

FrameOrder == <<"init", "updateVisibility", "updateClasses">>

RECURSIVE runCallbacks(_, _, _)
runCallbacks(m, pending, order) ==
    IF order = << >> THEN m
    ELSE runCallbacks(IF Head(order) \in pending THEN runCallback(m, Head(order)) ELSE m,
                      pending, Tail(order))

\* the browser runs the animation-frame callbacks that are waiting
Frame ==
    /\ pc = "ready"
    /\ raf # {}
    /\ \E m \in {runCallbacks([Machine EXCEPT !.raf = {}], raf, FrameOrder)} : Apply(m)
    /\ UNCHANGED <<build, pc, quota, mounted, location, history, hindex, last, cond, res, classList, singleton, click>>

Next ==
    \/ Construct
    \/ Mount
    \/ QuotaExceeded
    \/ \E properties \in SetInputs : Set(properties)
    \/ \E kv \in AssignInputs : Assign(kv[1], kv[2])
    \/ \E key \in SubscribeKeys, callback \in Callbacks : Subscribe(key, callback)
    \/ \E key \in SubscribeKeys, callback \in Callbacks : Unsubscribe(key, callback)
    \/ \E e \in BoundEls, text \in TypedTexts : Change(e, text)
    \/ \E initialState \in ResetInputs : Reset(initialState)
    \/ Frame

Spec == Init /\ [][Next]_vars

\* the router: the store is written by State.set and by navigate.  The
\* animation-frame callbacks write neither the store, the storage record nor
\* the session history; they run in Spec.
NextRouter ==
    \/ Construct
    \/ Mount
    \/ QuotaExceeded
    \/ \E properties \in SetInputs : Set(properties)
    \/ \E call \in NavigateInputs : Navigate(call[1], call[2], call[3])

SpecRouter == Init /\ [][NextRouter]_vars

\* subscriptions: two callbacks subscribe to a key, each maybe more than
\* once, and unsubscribe, while the key is set
NextSubscribers ==
    \/ Construct
    \/ Mount
    \/ \E key \in SubscribeKeys, callback \in Callbacks :
           SubscribeUpTo(key, callback, MaxRegistrations)
    \/ \E key \in SubscribeKeys, callback \in Callbacks : Unsubscribe(key, callback)
    \/ \E properties \in SetInputs : Set(properties)

SpecSubscribers == Init /\ [][NextSubscribers]_vars

\* the singleton: the application constructs StateSingleton again, while
\* it loads and while it runs
NextSingleton ==
    \/ Construct
    \/ NewStateSingleton
    \/ Mount
    \/ QuotaExceeded
    \/ \E properties \in SetInputs : Set(properties)

SpecSingleton == Init /\ [][NextSingleton]_vars

\* the listener h adds for the onClick property of an anchor calls
\* preventDefault when the handler returns false (standalone), or always,
\* before it calls the handler (UMD)
onClickPrevents(onClick) ==
    onClick.present /\ (build = "umd" \/ onClick.first = "false")

\* the guard of the listener h adds to an anchor with an internal href:
\* !props.onClick || props.onClick(e) !== false, where the handler is called
\* a second time for the event
intercepts(onClick) == ~onClick.present \/ onClick.second # "false"

\* the browser follows a link that no listener prevented: to a fragment of
\* the current document (a new history entry without state, and hashchange)
\* or to another document, which ends the page
FollowLink(href) ==
    IF href = location /\ Includes(href, <<"#">>)
    THEN UNCHANGED <<pc, location, history, hindex>>
    ELSE IF FragmentChange(location, href) /\ Includes(href, <<"#">>)
    THEN /\ hindex < MaxHistory
         /\ history' = Append(SubSeq(history, 1, hindex), HistoryEntry(href, Undefined))
         /\ hindex' = hindex + 1
         /\ location' = href
         /\ pc' = "hashchange"
    ELSE /\ pc' = "left"
         /\ UNCHANGED <<location, history, hindex>>

\* the user clicks an anchor with an internal href (it starts with "/" and
\* not with "//"): the listener of its onClick property runs first, then
\* the listener that intercepts internal routes, then the browser's default
Click(href, onClick) ==
    /\ pc = "ready"
    /\ IF intercepts(onClick) /\ ~Includes(href, <<"#">>)
       THEN /\ navigateFrom("click", href, BoolOption(FALSE), FALSE,
                            history, hindex, location)
            /\ click' = ClickEvent(href, onClick, TRUE, TRUE,
                                   IF onClick.present THEN 2 ELSE 0)
            /\ UNCHANGED pc
       ELSE /\ click' = ClickEvent(href, onClick, onClickPrevents(onClick), FALSE,
                                   IF onClick.present THEN 2 ELSE 0)
            /\ last' = Last("click", Machine, href)
            /\ IF onClickPrevents(onClick)
               THEN UNCHANGED <<pc, location, history, hindex>>
               ELSE FollowLink(href)
            /\ UNCHANGED <<data, storage, display, inputValue, raf, subscribers>>
    /\ UNCHANGED <<build, quota, mounted, cond, res, classList, singleton>>

\* the hrefs of the anchors and their onClick handlers
Hrefs == {PathRoot, PathA, PathAHash}

OnClicks ==
    {NoOnClick} \cup
    {OnClick(TRUE, first, second) : first, second \in {"false", "undefined"}}

\* links: the user clicks the anchors of the application and goes back
NextLinks ==
    \/ Construct
    \/ Mount
    \/ QuotaExceeded
    \/ \E href \in Hrefs, onClick \in OnClicks : Click(href, onClick)
    \/ HashChange
    \/ Back

SpecLinks == Init /\ [][NextLinks]_vars

\* the fragments of the links inside a document
Fragments == { <<"h">> }

\* the calls of navigate by an application whose state objects hold no
\* route: path, options, replace
HistoryInputs ==
    { <<PathRoot, BoolOption(FALSE), FALSE>>,
      <<PathA, BoolOption(FALSE), FALSE>>,
      <<PathAHash, BoolOption(TRUE), FALSE>>,
      <<PathRoot, ObjectOption(<< <<KeyB, Bool(TRUE)>> >>), FALSE>>,
      <<PathA, ObjectOption(<< <<KeyB, Bool(TRUE)>> >>), TRUE>> }

\* the session history: page load, navigate calls, back and forward, and
\* links to fragments
NextHistory ==
    \/ Construct
    \/ Mount
    \/ QuotaExceeded
    \/ DOMContentLoaded
    \/ \E call \in HistoryInputs : Navigate(call[1], call[2], call[3])
    \/ Back
    \/ Forward
    \/ \E fragment \in Fragments : NativeHash(fragment)
    \/ HashChange

SpecHistory == Init /\ [][NextHistory]_vars

\* what a valid-if function does when called
Outcomes == {"true", "false", "throws"}
Groups == {GroupG, GroupO}

\* validate(groupName)
Validate(groupName, outcomes) ==
    /\ pc = "ready"
    /\ classList' = validateClasses(classList, groupName, outcomes)
    /\ \E m \in {validate(Machine, groupName, outcomes)} :
           /\ Apply(m)
           /\ last' = [Last("validate", m, << >>) EXCEPT
                           !.group = groupName,
                           !.checked = validated(groupName),
                           !.outcomes = outcomes,
                           !.ret = allValid(groupName, outcomes)]
    /\ UNCHANGED <<build, pc, quota, mounted, location, history, hindex, cond, res,
                   singleton, click>>

\* resetValidation(groupName)
ResetValidation(groupName) ==
    /\ pc = "ready"
    /\ classList' = resetClasses(classList, groupName)
    /\ \E m \in {resetValidation(Machine, groupName)} :
           /\ Apply(m)
           /\ last' = [Last("resetValidation", m, << >>) EXCEPT !.group = groupName]
    /\ UNCHANGED <<build, pc, quota, mounted, location, history, hindex, cond, res,
                   singleton, click>>

\* form validation: the application validates and resets its groups
NextValidation ==
    \/ Construct
    \/ Mount
    \/ \E groupName \in Groups :
           \E outcomes \in [validated(groupName) -> Outcomes] :
               Validate(groupName, outcomes)
    \/ \E groupName \in Groups : ResetValidation(groupName)

\* localStorage may refuse every write from the start (storage disabled)
InitValidation == Unloaded(StoredItems, BOOLEAN)

SpecValidation == InitValidation /\ [][NextValidation]_vars

-----------------------------------------------------------------------------
(* reactive(obj, callback) on its own: an object made by reactive, with a
   callback that records its calls and may throw *)

\* the values assigned, and the objects handed to reactive
ReactiveValues ==
    {Undefined, Null, Bool(TRUE), Num(0), NaNValue, Str(<<"x">>), Fn(1)}

ReactiveObjects ==
    {EmptyObject, FromEntries(<< <<KeyA, NaNValue>> >>),
     FromEntries(<< <<KeyA, Bool(TRUE)>>, <<KeyB, Undefined>> >>)}

InitReactive ==
    /\ build \in Builds
    /\ pc = "reactive"
    /\ storage = NoItem
    /\ quota = FALSE
    /\ data \in ReactiveObjects
    /\ subscribers = NoSubscribers
    /\ mounted = FALSE
    /\ display = [e \in ShowEls |-> TRUE]
    /\ inputValue = [e \in BoundEls |-> << >>]
    /\ raf = {}
    /\ location = PathRoot
    /\ history = << [url |-> location, path |-> Undefined] >>
    /\ hindex = 1
    /\ last = Last("none", Machine, << >>)
    /\ cond = << >>
    /\ res = NoResult
    /\ classList = [f \in Fields |-> {}]
    /\ singleton = NoSingleton
    /\ click = NoClick

\* proxy[key] = value, on the object reactive returned; throws tells whether
\* the callback throws when it is called
ReactiveAssign(key, value, throws) ==
    /\ pc = "reactive"
    /\ \E r \in {proxySet(data, key, value)} :
           /\ data' = r.target
           /\ last' = [Last("reactive", Machine, << >>) EXCEPT
                           !.key = key, !.value = value, !.seen = r.seen,
                           !.threw = throws /\ r.seen # << >>]
    /\ UNCHANGED <<build, pc, storage, quota, subscribers, mounted, display,
                   inputValue, raf, location, history, hindex, cond, res,
                   classList, singleton, click>>

NextReactive ==
    \E key \in {KeyA, KeyB}, value \in ReactiveValues, throws \in BOOLEAN :
        ReactiveAssign(key, value, throws)

SpecReactive == InitReactive /\ [][NextReactive]_vars

-----------------------------------------------------------------------------
(* The expression evaluator on its own: a condition is evaluated once against
   a store. *)

CondNotA == <<"!">> \o KeyA
CondEquals == <<"a"," ","=","="," ","1">>
CondGreater == <<"a",">","0">>
CondOr == <<"a"," ","|","|"," ","b">>
CondAnd == <<"a"," ","&","&"," ","b">>
CondAndOr == <<"a","&","&","!","b"," ","|","|"," ","!","a","&","&","b">>
CondMatches == <<"a"," ">> \o MatchesOp \o <<" ","x">>
CondBadRegex == <<"a"," ">> \o MatchesOp \o <<" ","(">>
CondNoKey == <<"!","="," ","5">>
CondNoValue == <<"a"," ","=">>
CondNoOperator == <<"a"," ","b">>

\* the expected routes of the route conditions
ExpectedRoutes == {PathRoot, PathA, <<" ">> \o PathA}

\* the texts of show-if attributes
Conditions ==
    {KeyA, CondNotA, MatchesOp, CondEquals, CondGreater, CondOr, CondAnd, CondAndOr,
     CondMatches, CondBadRegex, CondNoKey, CondNoValue, CondNoOperator}
    \cup {RouteIs \o x : x \in ExpectedRoutes}
    \cup {RouteIsNot \o x : x \in ExpectedRoutes}

\* the stores: a is absent, true, 1 or "x"; b and matches are absent or
\* true; the route is a path, or absent as it is after State.reset()
EvalRoutes == {PathRoot, PathA, PathAHash, PathA \o <<"#">>, PathA \o <<"b">>}
EvalStores ==
    {EmptyObject}
    \cup { FromEntries(<< <<KeyA, a>>, <<KeyB, b>>, <<MatchesOp, b>>, <<Route, Str(r)>> >>) :
             a \in {Undefined, Bool(TRUE), Num(1), Str(<<"x">>)},
             b \in {Undefined, Bool(TRUE)},
             r \in EvalRoutes }

InitEval ==
    /\ build \in Builds
    /\ pc = "evaluate"
    /\ storage = NoItem
    /\ quota = FALSE
    /\ data \in EvalStores
    /\ subscribers = NoSubscribers
    /\ mounted = FALSE
    /\ display = [e \in ShowEls |-> TRUE]
    /\ inputValue = [e \in BoundEls |-> << >>]
    /\ raf = {}
    /\ location = PathRoot
    /\ history = << [url |-> location, path |-> Undefined] >>
    /\ hindex = 1
    /\ last = Last("none", Machine, << >>)
    /\ cond \in Conditions
    /\ res = NoResult
    /\ classList = [f \in Fields |-> {}]
    /\ singleton = NoSingleton
    /\ click = NoClick

\* evaluateCondition(cond)
Evaluated(r) ==
    res' = [done |-> TRUE, val |-> r.val, threw |-> r.threw, logged |-> r.logged]

Evaluate ==
    /\ pc = "evaluate"
    /\ ~res.done
    /\ Evaluated(evaluateCondition(cond, data, build))
    /\ UNCHANGED <<build, pc, storage, quota, data, subscribers, mounted, display,
                   inputValue, raf, location, history, hindex, last, cond, classList, singleton, click>>

NextEval == Evaluate

SpecEval == InitEval /\ [][NextEval]_vars

-----------------------------------------------------------------------------
(* updateClasses on its own: an element with one class-if rule and some
   classes, and a store *)

ClassOn == <<"o","n">>
ClassOff == <<"o","f","f">>
ClassEls == {"badge"}

\* a rule `cond ? a : b` (b may be left out) or `key: a`
IfRule(condition, a, b) == [form |-> "if", cond |-> condition, a |-> a, b |-> b]
KeyRule(key, a) == [form |-> "key", cond |-> key, a |-> a, b |-> << >>]

\* the attribute text of a rule
classIf(rule) ==
    IF rule.form = "key" THEN rule.cond \o <<":"," ">> \o rule.a
    ELSE rule.cond \o <<" ","?"," ">> \o rule.a \o
         (IF rule.b = << >> THEN << >> ELSE <<" ",":"," ">> \o rule.b)

\* a is not "x?"
CondNotAsks == <<"a","!","=","x","?">>

ClassConditions ==
    {KeyA, CondNotA, CondEquals, CondGreater, CondOr, CondAnd, CondMatches,
     CondBadRegex, RouteIs \o PathA, RouteIsNot \o PathA, CondNotAsks}

ClassRules ==
    {IfRule(c, ClassOn, ClassOff) : c \in ClassConditions}
    \cup {IfRule(KeyA, ClassOn, << >>)}
    \cup {KeyRule(KeyA, ClassOn), KeyRule(KeyB, ClassOff)}

InitClasses ==
    /\ build \in Builds
    /\ pc = "classes"
    /\ storage = NoItem
    /\ quota = FALSE
    /\ data \in EvalStores
    /\ subscribers = NoSubscribers
    /\ mounted = TRUE
    /\ display = [e \in ShowEls |-> TRUE]
    /\ inputValue = [e \in BoundEls |-> << >>]
    /\ raf = {}
    /\ location = PathRoot
    /\ history = << [url |-> location, path |-> Undefined] >>
    /\ hindex = 1
    /\ last = Last("none", Machine, << >>)
    /\ cond \in ClassRules
    /\ res = NoResult
    /\ classList \in [ClassEls -> SUBSET {ClassOn, ClassOff}]
    /\ singleton = NoSingleton
    /\ click = NoClick

\* updateClasses()
UpdateClasses ==
    /\ pc = "classes"
    /\ ~res.done
    /\ \E e \in ClassEls :
           \E st \in {updateClassList(classList[e], classIf(cond), data)} :
               /\ classList' = [classList EXCEPT ![e] = st.classes]
               /\ res' = [done |-> TRUE, val |-> FALSE, threw |-> st.threw,
                          logged |-> FALSE]
    /\ UNCHANGED <<build, pc, storage, quota, data, subscribers, mounted, display,
                   inputValue, raf, location, history, hindex, last, cond,
                   singleton, click>>

NextClasses == UpdateClasses

SpecClasses == InitClasses /\ [][NextClasses]_vars

-----------------------------------------------------------------------------
(* Properties *)

\* the store write of the last operation went through: no setItem call failed
\* and no exception left the handler
Wrote == ~last.failed /\ ~last.threw

\* every callback subscribed to key was called with the key's value
Notified(key) ==
    \A i \in 1..Len(subscribers[key]) :
        \E j \in 1..Len(last.calls) : last.calls[j] = <<subscribers[key][i], Get(data, key)>>

\* C1: every write that changes a store key (State.set, a direct assignment
\* on State.getData(), a change event on a bound input) calls every callback
\* subscribed to the key with the new value and writes the storage record.
\* Stated for the writes whose storage write went through.
C1_WriteNotifiesAndStores ==
    (last.op \in {"set", "assign", "change"} /\ last.changed # {} /\ Wrote)
        => /\ \A key \in last.changed : Notified(key)
           /\ storage = stringify(data)

\* C1: a direct assignment changed a key that has a subscriber
C1_AssignedWithSubscriber ==
    /\ last.op = "assign"
    /\ Wrote
    /\ \E key \in last.changed : subscribers[key] # << >>

C3_RecordAfterReset ==
    (last.op = "reset" /\ Wrote) => storage = stringify(data)

\* C3: reset() removed keys that the record still holds
C3_ResetLeftRecord ==
    /\ last.op = "reset"
    /\ Wrote
    /\ data = EmptyObject
    /\ storage.kind = "json"
    /\ DOMAIN storage.obj # {}

\* C4: when the stored text is no JSON, the constructor does not throw and
\* the store starts from an empty object plus the route and the PWA keys.
C4_GarbageDiscarded ==
    (last.op = "construct" /\ last.item = "garbage")
        => /\ ~last.threw
           /\ pc = "constructed"
           /\ data = FromEntries(<< <<PwaInstallPrompt, Null>>,
                                    <<ShowInstallButton, Bool(FALSE)>>,
                                    <<Route, Str(location)>> >>)

\* C4: the UMD build constructed its store from a record that is no JSON
C4_GarbageSurvived ==
    /\ last.op = "construct"
    /\ last.item = "garbage"
    /\ pc = "constructed"

\* the element is displayed iff its show-if expression is true of the
\* store; r is what evaluating the expression gives, and nothing is asked of
\* an element whose expression throws
ShownAs(e, r) == r.threw \/ display[e] = r.val
Shown(e) == ShownAs(e, evaluateCondition(Trim(ShowIf[e]), data, build))

\* C5: after a store mutation (State.set, State.reset, a change event), once
\* no animation-frame callback is pending, every element with a show-if
\* attribute whose expression can be evaluated is displayed iff the
\* expression is true of the store.
C5_VisibilityFollowsStore ==
    (mounted /\ raf = {} /\ last.op \in {"set", "reset", "change"} /\ Wrote)
        => \A e \in ShowEls : Shown(e)

\* C5: reset() emptied the store, no callback is pending, and the element
\* with show-if="a" is still displayed
C5_ResetLeftDisplayed ==
    /\ mounted
    /\ raf = {}
    /\ last.op = "reset"
    /\ data = EmptyObject
    /\ display["panel"]

\* the expression grammar: a key is a run of letters, digits and underscores
IsKey(c) == c # << >> /\ \A i \in 1..Len(c) : KeyChar(c[i])

IsNegation(c) == StartsWith(c, <<"!">>) /\ IsKey(Trim(Tail(c)))

IsRouteExpression(c) ==
    \E op \in {RouteStarts, RouteIs, RouteIsNot, RouteHash} :
        StartsWith(c, op) /\ Trim(SubSeq(c, Len(op) + 1, Len(c))) # << >>

IsComparison(c) ==
    \E i \in 1..Len(c), k \in 1..Len(Operators) :
        /\ OpAt(c, i, Operators[k])
        /\ IsKey(Trim(SubSeq(c, 1, i - 1)))
        /\ Trim(SubSeq(c, i + Len(Operators[k]), Len(c))) # << >>

FitsGrammar(c) == IsKey(c) \/ IsNegation(c) \/ IsRouteExpression(c) \/ IsComparison(c)

IsSingle(c) == ~Includes(c, <<"|","|">>) /\ ~Includes(c, <<"&","&">>)

\* C6: an expression that does not fit the grammar evaluates to false for
\* every store: it never evaluates to true and never throws.
C6_MalformedIsFalse ==
    (res.done /\ IsSingle(cond) /\ ~FitsGrammar(cond)) => (~res.val /\ ~res.threw)

\* C6: the expression "!= 5", which has no key, evaluated to true
C6_MalformedWasTrue ==
    /\ res.done
    /\ cond = CondNoKey
    /\ res.val

\* C7: `key matches <pattern>` with a pattern that is no regular expression
\* is logged as an error and evaluates to false without throwing, in both
\* builds.
C7_BadRegexLoggedAndFalse ==
    (res.done /\ cond = CondBadRegex) => (res.logged /\ ~res.val /\ ~res.threw)

\* C7: the standalone build logged the invalid pattern and returned false
C7_BadRegexLogged ==
    /\ res.done
    /\ cond = CondBadRegex
    /\ build = "standalone"
    /\ res.logged
    /\ ~res.val

\* what the claim gives as the meaning of one condition; a condition that
\* is neither a bare key nor a negated key means what the code computes
Means(c) ==
    IF IsKey(c) THEN Truthy(Get(data, c))
    ELSE IF IsNegation(c) THEN ~Truthy(Get(data, Trim(Tail(c))))
    ELSE evaluateSingleCondition(c, data, build).val

Conjuncts(alternative) == SplitOn(alternative, <<"&","&">>)
Alternatives(c) == SplitOn(c, <<"|","|">>)

SomeAlternativeHolds(c) ==
    \E i \in 1..Len(Alternatives(c)) :
        \A j \in 1..Len(Conjuncts(Alternatives(c)[i])) :
            Means(Trim(Conjuncts(Alternatives(c)[i])[j]))

\* C8: evaluateCondition(c) is true iff one of the ||-separated alternatives
\* of c has all its &&-separated conditions true, where a bare key is true
\* iff the store value is truthy and !key is true iff it is falsy.
C8_AlternativesOfConjunctions ==
    (res.done /\ ~res.threw) => (res.val = SomeAlternativeHolds(cond))

\* C8: the bare key "matches" evaluated to false in a store where it is true
C8_TruthyKeyWasFalse ==
    /\ res.done
    /\ cond = MatchesOp
    /\ Truthy(Get(data, MatchesOp))
    /\ ~res.val

\* the route is X, or X followed by a hash fragment
RouteMatches(cur, x) ==
    \/ cur = x
    \/ /\ Len(cur) > Len(x)
       /\ SubSeq(cur, 1, Len(x)) = x
       /\ cur[Len(x) + 1] = "#"

\* C9: for every current route and every expected route X, route==X is true
\* exactly when the route is X or X followed by a hash fragment, and
\* route!=X is its exact negation.
C9_RouteEquality ==
    \A x \in ExpectedRoutes :
        (res.done /\ Route \in DOMAIN data /\ data[Route].t = "string")
            => /\ cond = RouteIs \o x => (~res.threw /\ res.val = RouteMatches(data[Route].s, Trim(x)))
               /\ cond = RouteIsNot \o x => (~res.threw /\ res.val = ~RouteMatches(data[Route].s, Trim(x)))

\* C9: route!=/a was evaluated to false on the route /a#h
C9_RouteWithHashIsNotDifferent ==
    /\ res.done
    /\ cond = RouteIsNot \o PathA
    /\ Get(data, Route) = Str(PathAHash)
    /\ ~res.val

\* C10: after navigate(path, options, replace) returned for a path that is
\* not the current route, State.get('route') is the requested path, and the
\* URL and the state.path of the current history entry are that path.
C10_RouteIsRequestedPath ==
    (last.op = "navigate" /\ last.acted /\ ~last.threw)
        => /\ Get(data, Route) = Str(last.path)
           /\ history[hindex].url = last.path
           /\ history[hindex].path = Str(last.path)

\* C10: navigate returned with the history entry at the requested path and
\* another route in the store
C10_RouteOverridden ==
    /\ last.op = "navigate"
    /\ last.acted
    /\ ~last.threw
    /\ history[hindex].url = last.path
    /\ Get(data, Route) # Str(last.path)

\* a step that is a call of navigate by the application, and one that is
\* the browser going back or forward (every operation but QuotaExceeded
\* records itself in last)
NavigateStep == last'.op = "navigate" /\ quota' = quota
PopstateStep == last'.op = "popstate" /\ quota' = quota

\* the call went past the early return, was to push an entry, and returned
Pushed == last'.acted /\ ~last'.replace /\ ~last'.threw

C12_RouteIsLocation ==
    (pc = "ready" /\ ~quota) => Get(data, Route) = Str(location)

\* C12: the user went back to the entry the page load created, the URL has
\* a path and the route is "/"
C12_BackToLoadEntry ==
    /\ pc = "ready"
    /\ ~quota
    /\ last.op = "popstate"
    /\ history[hindex].path = Undefined
    /\ location = PathAHash
    /\ Get(data, Route) = Str(PathRoot)

\* the fields that belong to a group, and those of them validate is to check
GroupFields(groupName) == {f \in Fields : FieldGroup[f] = groupName}
Checkable(groupName) ==
    {f \in GroupFields(groupName) : f \in HasValidIf /\ FieldBind[f] # << >>}

\* C13: validate(groupName) returns true iff every field of the group that
\* has a valid-if function and a data-bind key passes its check; a check
\* that fails or throws makes it return false.
C13_ValidateReturns ==
    (last.op = "validate" /\ ~last.threw)
        => (last.ret = \A f \in Checkable(last.group) : last.outcomes[f] = "true")

\* C13: validate("g") returned false although the only checked field of
\* group g passed: the textarea of the other group failed
C13_OutsideFieldFailed ==
    /\ last.op = "validate"
    /\ ~last.threw
    /\ last.group = GroupG
    /\ last.outcomes["email"] = "true"
    /\ last.outcomes["note"] = "false"
    /\ ~last.ret

\* a step that is a call of validate or resetValidation
ValidationStep == last'.op \in {"validate", "resetValidation"} /\ quota' = quota

\* C14: validate(g) and resetValidation(g) leave every field outside group
\* g alone: its classes valid and invalid and its <bindKey>_valid and
\* <bindKey>_invalid store keys are unchanged, and its valid-if function is
\* not called.
C14_OnlyGroupFields ==
    [][ValidationStep
         => \A f \in Fields \ GroupFields(last'.group) :
                /\ classList'[f] = classList[f]
                /\ Get(data', validKey(FieldBind[f])) = Get(data, validKey(FieldBind[f]))
                /\ Get(data', invalidKey(FieldBind[f])) = Get(data, invalidKey(FieldBind[f]))
                /\ f \notin last'.checked]_vars

\* C14: validate("g") called the valid-if function of the textarea of
\* group o and marked it invalid
C14_OutsideFieldChecked ==
    /\ last.op = "validate"
    /\ last.group = GroupG
    /\ "note" \in last.checked
    /\ "invalid" \in classList["note"]
    /\ Get(data, invalidKey(FieldBind["note"])) = Bool(TRUE)

\* C15: after validate(g) returned r, the store holds g_valid = r and
\* g_invalid = not r; every validated field with key k has the class invalid
\* and k_invalid true if it failed, the class valid and k_valid true if it
\* passed; when r is false a field of the group is marked invalid.
C15_ValidateMarks ==
    (last.op = "validate" /\ ~last.threw)
        => /\ Get(data, validKey(last.group)) = Bool(last.ret)
           /\ Get(data, invalidKey(last.group)) = Bool(~last.ret)
           /\ \A f \in last.checked :
                  IF last.outcomes[f] = "true"
                  THEN /\ "valid" \in classList[f]
                       /\ Get(data, validKey(FieldBind[f])) = Bool(TRUE)
                  ELSE /\ "invalid" \in classList[f]
                       /\ Get(data, invalidKey(FieldBind[f])) = Bool(TRUE)
           /\ ~last.ret => \E f \in GroupFields(last.group) : "invalid" \in classList[f]

\* C15: validate("g") returned false because the check of the field threw,
\* and the field carries no class
C15_ThrownNotMarked ==
    /\ last.op = "validate"
    /\ ~last.threw
    /\ last.group = GroupG
    /\ last.outcomes["email"] = "throws"
    /\ ~last.ret
    /\ classList["email"] = {}

\* C16: after resetValidation(g) returned, no field of group g has the
\* class valid or invalid, and <bindKey>_valid and <bindKey>_invalid of its
\* bound fields and g_valid and g_invalid are undefined in the store.
C16_ResetClears ==
    (last.op = "resetValidation" /\ ~last.threw)
        => /\ \A f \in GroupFields(last.group) :
                  /\ classList[f] \cap {"valid", "invalid"} = {}
                  /\ FieldBind[f] # << >>
                        => /\ Get(data, validKey(FieldBind[f])) = Undefined
                           /\ Get(data, invalidKey(FieldBind[f])) = Undefined
           /\ Get(data, validKey(last.group)) = Undefined
           /\ Get(data, invalidKey(last.group)) = Undefined

\* C16: resetValidation("g") returned after a validate("g") had written
\* the keys of the field and of the group
C16_ResetAfterValidate ==
    /\ last.op = "resetValidation"
    /\ ~last.threw
    /\ last.group = GroupG
    /\ validKey(FieldBind["email"]) \in DOMAIN data
    /\ validKey(GroupG) \in DOMAIN data
    /\ classList["email"] = {}

-----------------------------------------------------------------------------
(* Two-way binding *)

\* what a form field that is neither checkbox nor radio shows for a value:
\* the value as a string, the empty string for null and undefined only
FieldShows(value) ==
    IF value.t \in {"undefined", "null"} THEN << >> ELSE StringOf(value)

\* C17: two-way binding keeps the bound elements and the store in sync.
\* After a change event on an element bound to k the store value of k is
\* the element's value, and after any operation that changed k every
\* element bound to k shows the value of k (the bound element of the
\* document is a text input: its value is the value as a string, and empty
\* only for null and undefined).
C17_TwoWayBinding ==
    (pc = "ready" /\ mounted) =>
        \A e \in BoundEls :
            /\ last.op = "change" => Get(data, DataBind[e]) = Str(inputValue[e])
            /\ DataBind[e] \in last.changed =>
                   inputValue[e] = FieldShows(Get(data, DataBind[e]))

\* a direct assignment changed the bound key to false, nothing threw, and
\* the input shows the empty string
C17_FalseShownEmpty ==
    /\ pc = "ready" /\ mounted /\ build = "standalone"
    /\ last.op = "assign" /\ ~last.threw
    /\ KeyA \in last.changed
    /\ Get(data, KeyA) = Bool(FALSE)
    /\ inputValue["field"] = << >>

-----------------------------------------------------------------------------
(* reactive *)

\* a and b differ by ===: NaN differs from every value, itself included
Differ(a, b) == a # b \/ a.t = "NaN"

\* C18: on an object made by reactive(obj, callback), an assignment of a
\* value that differs by === from the current one updates the target and
\* then calls the callback exactly once, with the key and the value, the
\* target already holding the value; an assignment of the identical value
\* calls no callback and changes nothing.
C18_ReactiveAssignment ==
    [][last'.op = "reactive" =>
          IF Differ(Get(data, last'.key), last'.value)
          THEN /\ data' = With(data, last'.key, last'.value)
               /\ Len(last'.seen) = 1
               /\ last'.seen[1].key = last'.key
               /\ last'.seen[1].value = last'.value
               /\ Get(last'.seen[1].target, last'.key) = last'.value
          ELSE /\ data' = data
               /\ last'.seen = << >>]_vars

\* NaN was assigned to a property, and the callback, called once with a
\* target that holds it, threw
C18_CallbackCalledOnce ==
    /\ last.op = "reactive"
    /\ last.value = NaNValue
    /\ last.threw
    /\ Len(last.seen) = 1
    /\ last.seen[1].target = data

-----------------------------------------------------------------------------
(* The singleton *)

-----------------------------------------------------------------------------
(* Clicks on anchors *)

\* the handler of the clicked anchor gave the same answer each time it was
\* called for the event
Answers(answer) ==
    click.onClick.present /\ click.onClick.first = answer
                          /\ click.onClick.second = answer

\* C20: a click on an anchor of h or Link with an internal href.  When the
\* href holds no "#", the click prevents the browser default and calls
\* navigate(href), unless the onClick handler returned false: then navigate
\* is not called.  When the href holds a "#", navigate is not called and
\* the browser default is left in place.  (Nothing is said here of a
\* handler that answers differently when it is called twice.)
C20_AnchorClick ==
    (last.op = "click" /\ (~click.onClick.present \/ Answers("false")
                                                  \/ Answers("undefined"))) =>
        IF Includes(click.href, <<"#">>)
        THEN ~click.navigated /\ ~click.prevented
        ELSE IF Answers("false")
        THEN ~click.navigated
        ELSE click.navigated /\ click.prevented

\* a link to a fragment whose handler does not return false was clicked in
\* the UMD build: the default was prevented and navigate was not called
C20_FragmentLinkDead ==
    /\ build = "umd"
    /\ last.op = "click"
    /\ click.href = PathAHash
    /\ Answers("undefined")
    /\ click.prevented
    /\ ~click.navigated
    /\ location # PathAHash

-----------------------------------------------------------------------------
(* class-if *)

\* the element carries the class
Carries(class) == \E e \in ClassEls : class \in classList[e]

\* the condition of the rule evaluates to val
EvaluatesTo(val) ==
    /\ ~evaluateCondition(cond.cond, data, build).threw
    /\ evaluateCondition(cond.cond, data, build).val = val

\* C21: after updateClasses ran, an element with the rule `cond ? A : B`
\* carries A exactly when cond evaluates to true and B exactly when cond
\* evaluates to false, and an element with the rule `key: C` carries C
\* exactly when the store value of key is truthy.  (Nothing is said here
\* of a condition whose evaluation throws.)
C21_ClassesFollowRule ==
    (pc = "classes" /\ res.done) =>
        IF cond.form = "key"
        THEN Carries(cond.a) <=> Truthy(Get(data, cond.cond))
        ELSE evaluateCondition(cond.cond, data, build).threw
             \/ /\ Carries(cond.a) <=> EvaluatesTo(TRUE)
                /\ cond.b # << >> => (Carries(cond.b) <=> EvaluatesTo(FALSE))

\* updateClasses ran for a rule whose condition holds a "?" and evaluates
\* to true, and the element does not carry the rule's first class
C21_QuestionMarkInCondition ==
    /\ pc = "classes" /\ res.done
    /\ cond = IfRule(CondNotAsks, ClassOn, ClassOff)
    /\ EvaluatesTo(TRUE)
    /\ ~Carries(ClassOn)

-----------------------------------------------------------------------------
(* Subscriptions *)

\* the sequence s without its i-th element
RemoveAt(s, i) == SubSeq(s, 1, i - 1) \o SubSeq(s, i + 1, Len(s))

\* the callbacks a State.set call invoked, in the order of the calls
Invoked(calls) == [i \in 1..Len(calls) |-> calls[i][1]]

\* C22: the unsubscribe function that State.subscribe(k, cb) returned takes
\* away the registration of that subscribe call and no other: every
\* registration on k made by another subscribe call stays, in its place in
\* the notification order; and a later State.set of k invokes the
\* callbacks that are registered then, in that order.
C22_UnsubscribeOne ==
    [][/\ last'.op = "unsubscribe" =>
              \E i \in 1..Len(subscribers[last'.key]) :
                  subscribers'[last'.key] = RemoveAt(subscribers[last'.key], i)
       /\ (last'.op = "set" /\ ~last'.threw) =>
              /\ subscribers' = subscribers
              /\ Invoked(last'.calls) = subscribers[KeyA]]_vars

\* a callback was registered by two subscribe calls, and the unsubscribe
\* function of one of them took both registrations away
C22_BothRegistrationsRemoved ==
    /\ last.op = "unsubscribe"
    /\ last.removed = 2
    /\ subscribers[KeyA] # << >>

====
